---- MODULE Spec2Model ----
(***************************************************************************)
(* A model of the cooldown coordinator of cooldowns/cooldown.py: the       *)
(* Cooldown class (bucket resolution, the bucket cache, clear and the      *)
(* background sweep, remaining_calls) and the wrapper the cooldown         *)
(* decorator builds around a coroutine.                                    *)
(*                                                                         *)
(* cooldown.py imports the per-bucket tracker (CooldownTimesPer), the      *)
(* bucket key (_HashableArguments) and the built-in bucket strategies      *)
(* (CooldownBucket) from modules that are not part of the sources at hand; *)
(* those three are modelled from the design document (sections 3, 4.1 and  *)
(* 4.2) and are marked as such where they are defined.  So is the          *)
(* time-of-day tracker (section 4.3), which the tests import.  The stack   *)
(* of two decorators is the one of tests/test_dynamic_cooldown.py.         *)
(***************************************************************************)
EXTENDS Integers, Sequences, FiniteSets, TLC

\* ------------------------------------------------------------------ bounds
\* The clock runs from 1 to MaxTime.
MaxTime == 2
\* Coordinators are constructed with a limit in 1..MaxLimit.
MaxLimit == 2
\* The window length every coordinator is constructed with.
TimePeriod == 1
\* Python's recursion limit, scaled down: a call nested deeper raises
\* RecursionError.
RecursionLimit == 2
\* The length of a day on the time-of-day tracker's clock, scaled down: a
\* time-of-day is an offset in 0..Day-1 from midnight.
Day == 3
\* The time-of-day tracker's clock runs from 0 (a midnight) to MaxClock.
MaxClock == 7

\* The logical callers that may have a decorated call in flight at once.
Calls == {"c1", "c2"}

\* ------------------------------------------------------------ bucket keys
\* Python's None: the initial _last_bucket, and clear()'s default bucket.
None == [none |-> TRUE]

\* _HashableArguments(*args, **kwargs): the positional values in order and
\* the keyword mapping (a set of <<name, value>> pairs), compared
\* structurally.
_HashableArguments(args, kwargs) == [args |-> args, kwargs |-> kwargs]

\* The bucket strategies: the three built-in ones and a caller-supplied one
\* (tests/test_dynamic_cooldown.py's CustomBucket.first_arg).
Strategies == {"all", "args", "kwargs", "first_arg"}

\* CustomBucket.first_arg.process returns args[0], which raises IndexError
\* when no positional argument was passed.
first_arg_raises(args, kwargs) == Len(args) = 0

first_arg(args, kwargs) == args[1]

\* CooldownBucket.process: the part of the call's arguments that makes the
\* bucket under each built-in strategy.
CooldownBucket_process(strategy, args, kwargs) ==
    CASE strategy = "all" -> <<args, kwargs>>
      [] strategy = "args" -> args
      [] strategy = "kwargs" -> kwargs

\* self._bucket.process(*args, **kwargs)
processRaises(strategy, args, kwargs) ==
    strategy = "first_arg" /\ first_arg_raises(args, kwargs)

process(strategy, args, kwargs) ==
    IF strategy = "first_arg"
    THEN first_arg(args, kwargs)
    ELSE CooldownBucket_process(strategy, args, kwargs)

\* Cooldown.get_bucket with the branches of the all and args strategies
\* mixed up: under args the keywords are kept as well.
get_bucket_keeps_kwargs(strategy, args, kwargs) ==
    CASE strategy = "all" -> _HashableArguments(args, kwargs)
      [] strategy = "args" -> _HashableArguments(args, kwargs)
      [] strategy = "kwargs" -> _HashableArguments(<<>>, kwargs)
      [] strategy = "first_arg" -> _HashableArguments(<<args[1]>>, {})

\* Cooldown.get_bucket: wraps what the strategy returned into a key.
get_bucket(strategy, args, kwargs) ==
    LET data == process(strategy, args, kwargs)
    IN  CASE strategy = "all" -> _HashableArguments(data[1], data[2])
          [] strategy = "args" -> _HashableArguments(data, {})
          [] strategy = "kwargs" -> _HashableArguments(<<>>, data)
          [] OTHER -> _HashableArguments(<<data>>, {})

\* ------------------------------------------------------------------ state
VARIABLES
    now,           \* the wall clock (time.time())
    limit,         \* Cooldown.limit
    _bucket,       \* Cooldown._bucket: the strategy
    _cache,        \* Cooldown._cache: a dict, kept in insertion order
    _last_bucket,  \* Cooldown._last_bucket
    _clean_task,   \* Cooldown._clean_task: "running" or "failed"
    pc,            \* where each caller's decorated call stands
    call,          \* the arguments of each caller's call in flight
    admits,        \* history: admissions charged to each key in its window
    event,         \* history: the operation that led to this state
    stack,         \* coordinators stacked on one coroutine, and its call
    wallclock,     \* a tracker with a time-of-day deadline, and its clock
    reference      \* a coordinator given the same calls that never evicts

vars == <<now, limit, _bucket, _cache, _last_bucket, _clean_task, pc, call,
          admits, event, stack, wallclock, reference>>

\* What the operations of one coordinator leave alone.
aside == <<stack, wallclock, reference>>

\* The arguments decorated calls are made with: f(1) and f(1, two=2), one
\* bucket under the args and first_arg strategies and two under the others.
CallInputs ==
    { [args |-> <<1>>, kwargs |-> {}],
      [args |-> <<1>>, kwargs |-> {<<"two", 2>>}] }

\* The arguments remaining_calls is asked about: the above and f(2), which
\* is never called.
RemainingInputs ==
    CallInputs \cup { [args |-> <<2>>, kwargs |-> {}] }

\* The arguments get_bucket is asked about: the above and f(), f(two=2),
\* f(two=3), f(1, 2), f(2, 1).
QueryInputs ==
    RemainingInputs \cup
    { [args |-> <<>>, kwargs |-> {}],
      [args |-> <<>>, kwargs |-> {<<"two", 2>>}],
      [args |-> <<>>, kwargs |-> {<<"two", 3>>}],
      [args |-> <<1, 2>>, kwargs |-> {}],
      [args |-> <<2, 1>>, kwargs |-> {}] }

NoCall == [args |-> <<>>, kwargs |-> {}]

\* Every key a decorated call can resolve to, and None.
Buckets ==
    { get_bucket(s, i.args, i.kwargs) : s \in Strategies, i \in CallInputs }
    \cup {None}

\* -------------------------------------------------------- the Python dict
Keys(cache) == { cache[i].key : i \in DOMAIN cache }

KeyList(cache) == [i \in DOMAIN cache |-> cache[i].key]

Has(cache, key) == key \in Keys(cache)

Lookup(cache, key) ==
    cache[CHOOSE i \in DOMAIN cache : cache[i].key = key].cd

Store(cache, key, cd) ==
    IF Has(cache, key)
    THEN [i \in DOMAIN cache |->
            IF cache[i].key = key THEN [key |-> key, cd |-> cd] ELSE cache[i]]
    ELSE Append(cache, [key |-> key, cd |-> cd])

IsNot(key, e) == e.key # key

Delete(cache, key) ==
    SelectSeq(cache, LAMBDA e : IsNot(key, e))

\* ------------------------------------------------- the per-bucket tracker
\* CooldownTimesPer(limit, time_period, cooldown): nothing consumed, window
\* not yet started (its deadline lies before every clock reading).
CooldownTimesPer(lim, time_period) ==
    [limit |-> lim, time_period |-> time_period,
     current |-> lim, window_deadline |-> 0]

\* Calls consumed in the tracker's window.
consumed(cd) == cd.limit - cd.current

\* CooldownTimesPer.has_cooldown: something is consumed and the window is
\* still valid.
has_cooldown(cd, t) == consumed(cd) > 0 /\ t < cd.window_deadline

\* CooldownTimesPer.__aenter__ (acquire): roll the window over when its
\* deadline has passed, then take one call or raise.
rolled(cd, t) ==
    IF t >= cd.window_deadline
    THEN [cd EXCEPT !.current = cd.limit,
                    !.window_deadline = t + cd.time_period]
    ELSE cd

acquire(cd, t) ==
    LET w == rolled(cd, t)
    IN  IF consumed(w) < w.limit
        THEN [cd |-> [w EXCEPT !.current = @ - 1], exc |-> "",
              retry_after |-> 0]
        ELSE [cd |-> w, exc |-> "CallableOnCooldown",
              retry_after |-> w.window_deadline - t]

\* ---------------------------------------------------------- the Cooldown
\* Cooldown._get_cooldown_for_bucket without the cache lookup: a fresh
\* tracker on every call.
_get_cooldown_always_new(cache, bucket, raise_on_create) ==
    LET fresh == CooldownTimesPer(limit, TimePeriod)
    IN  [cache |-> Store(cache, bucket, fresh), slot |-> bucket,
         cd |-> fresh, exc |-> ""]

\* Cooldown._get_cooldown_for_bucket with every bucket kept under one key
\* of the cache.
_get_cooldown_one_slot(cache, bucket, raise_on_create) ==
    IF Has(cache, None)
    THEN [cache |-> cache, slot |-> None, cd |-> Lookup(cache, None),
          exc |-> ""]
    ELSE IF raise_on_create
         THEN [cache |-> cache, slot |-> None, cd |-> CooldownTimesPer(0, 0),
               exc |-> "NonExistent"]
         ELSE LET fresh == CooldownTimesPer(limit, TimePeriod)
              IN  [cache |-> Store(cache, None, fresh), slot |-> None,
                   cd |-> fresh, exc |-> ""]

\* Cooldown._get_cooldown_for_bucket.  The tracker is an object held by the
\* cache: slot is the key it is held under, so that what the caller does to
\* the tracker is done to that entry.
_get_cooldown_for_bucket(cache, bucket, raise_on_create) ==
    IF Has(cache, bucket)
    THEN [cache |-> cache, slot |-> bucket, cd |-> Lookup(cache, bucket),
          exc |-> ""]
    ELSE IF raise_on_create
         THEN [cache |-> cache, slot |-> bucket,
               cd |-> CooldownTimesPer(0, 0), exc |-> "NonExistent"]
         ELSE LET fresh == CooldownTimesPer(limit, TimePeriod)
              IN  [cache |-> Store(cache, bucket, fresh), slot |-> bucket,
                   cd |-> fresh, exc |-> ""]

\* A variant of __aenter__ that acquires a tracker only when it has just
\* created it: a tracker found in the cache is returned untouched.
aenter_acquires_on_create(cache, last_bucket, t) ==
    LET got == _get_cooldown_for_bucket(cache, last_bucket, FALSE)
        acq == acquire(got.cd, t)
    IN  IF Has(cache, last_bucket)
        THEN [cache |-> got.cache, exc |-> "", retry_after |-> 0]
        ELSE [cache |-> Store(got.cache, got.slot, acq.cd),
              exc |-> acq.exc, retry_after |-> acq.retry_after]

\* A variant of __aenter__ that does not read _last_bucket: every entry is
\* charged to the key None.
aenter_no_bucket(cache, last_bucket, t) ==
    LET got == _get_cooldown_for_bucket(cache, None, FALSE)
        acq == acquire(got.cd, t)
    IN  [cache |-> Store(got.cache, got.slot, acq.cd),
         exc |-> acq.exc, retry_after |-> acq.retry_after]

\* Cooldown.__aenter__: fetch (or create) the tracker of the last resolved
\* bucket and acquire it; the tracker's hold ends as __aenter__ returns.
aenter(cache, last_bucket, t) ==
    LET got == _get_cooldown_for_bucket(cache, last_bucket, FALSE)
        acq == acquire(got.cd, t)
    IN  [cache |-> Store(got.cache, got.slot, acq.cd),
         exc |-> acq.exc, retry_after |-> acq.retry_after]

\* A variant of __aexit__ that gives the call taken on entry back to the
\* tracker of the last resolved bucket.
aexit_gives_back(cache, last_bucket) ==
    IF Has(cache, last_bucket)
    THEN LET cd == Lookup(cache, last_bucket)
         IN  Store(cache, last_bucket,
                   [cd EXCEPT !.current = IF @ < cd.limit THEN @ + 1 ELSE @])
    ELSE cache

\* Cooldown.__aexit__: its body is "...", whatever the block raised.
aexit(cache, last_bucket) == cache

\* A variant of __aenter__ that returns inside "async with bucket" without
\* leaving it: the tracker of a call stays held while the call runs the
\* wrapped coroutine.
held_until_exit(pcs, calls, strategy) ==
    { get_bucket(strategy, calls[p].args, calls[p].kwargs) :
        p \in { q \in DOMAIN pcs : pcs[q] = "func" } }

\* The buckets whose tracker is held between two steps.  __aenter__ returns
\* from inside "async with bucket" (lines 144-145), which leaves the
\* tracker before the wrapped coroutine starts: none is.
held(pcs, calls, strategy) == {}

\* A variant of inner that is suspended between _cooldown(*args, **kwargs)
\* and the entry.
suspends_always == TRUE

\* Whether a call can be suspended between __call__ storing _last_bucket
\* (line 151) and __aenter__ reading it (line 143): "async with
\* _cooldown(*args, **kwargs)" runs both without an await in between.
suspends_before_enter == FALSE

\* The try block of Cooldown.clear without "or force_evict".
evict_ignores_force(cache, bucket, force_evict, t) ==
    IF Has(cache, bucket) /\ ~has_cooldown(Lookup(cache, bucket), t)
    THEN Delete(cache, bucket)
    ELSE cache

\* The try block of Cooldown.clear: evict the bucket when it tracks nothing
\* or eviction is forced; a missing key is ignored.
evict(cache, bucket, force_evict, t) ==
    IF Has(cache, bucket)
    THEN IF ~has_cooldown(Lookup(cache, bucket), t) \/ force_evict
         THEN Delete(cache, bucket)
         ELSE cache
    ELSE cache

\* Cooldown.clear.  "if not bucket" runs self.clear(bucket) for every key of
\* a snapshot of the cache and then falls through to the try block with the
\* loop variable (None when the snapshot was empty).  depth counts the
\* nested calls.
RECURSIVE clear(_, _, _, _, _)
RECURSIVE clear_loop(_, _, _, _, _)

clear_loop(cache, keys, force_evict, t, depth) ==
    IF keys = <<>>
    THEN [cache |-> cache, exc |-> ""]
    ELSE LET r == clear(cache, Head(keys), force_evict, t, depth + 1)
         IN  IF r.exc # ""
             THEN r
             ELSE clear_loop(r.cache, Tail(keys), force_evict, t, depth)

clear(cache, bucket, force_evict, t, depth) ==
    IF depth > RecursionLimit
    THEN [cache |-> cache, exc |-> "RecursionError"]
    ELSE IF bucket = None
         THEN LET snapshot == KeyList(cache)
                  r == clear_loop(cache, snapshot, force_evict, t, depth)
                  last == IF snapshot = <<>> THEN None
                          ELSE snapshot[Len(snapshot)]
              IN  IF r.exc # ""
                  THEN r
                  ELSE [cache |-> evict(r.cache, last, force_evict, t),
                        exc |-> ""]
         ELSE [cache |-> evict(cache, bucket, force_evict, t), exc |-> ""]

\* Cooldown.remaining_calls without raise_on_create=True: asking creates the
\* tracker.
remaining_calls_creates(cache, strategy, args, kwargs) ==
    LET bucket == get_bucket(strategy, args, kwargs)
        got == _get_cooldown_for_bucket(cache, bucket, FALSE)
    IN  [cache |-> got.cache, val |-> got.cd.current]

\* Cooldown.remaining_calls
remaining_calls(cache, strategy, args, kwargs) ==
    LET bucket == get_bucket(strategy, args, kwargs)
        got == _get_cooldown_for_bucket(cache, bucket, TRUE)
    IN  IF got.exc = "NonExistent"
        THEN [cache |-> got.cache, val |-> limit]
        ELSE [cache |-> got.cache, val |-> got.cd.current]

\* The wrapper of the decorator (inner) with the check's answer ignored:
\* the cooldown is engaged for every call.
inner_ignores_check(cache, strategy, args, kwargs, use_cooldown, t) ==
    LET bucket == get_bucket(strategy, args, kwargs)
        r == aenter(cache, bucket, t)
    IN  [cache |-> r.cache, last_bucket |-> bucket, resolved |-> TRUE,
         exc |-> r.exc, retry_after |-> r.retry_after,
         at |-> IF r.exc = "" THEN "func" ELSE "idle"]

\* The wrapper of the decorator (inner), from the check's answer to the
\* point where the wrapped coroutine is awaited.  With a false answer the
\* coroutine is awaited directly (line 81).  Otherwise "async with
\* _cooldown(*args, **kwargs)" resolves the bucket into _last_bucket
\* (__call__) and enters (__aenter__) with no suspension in between, and the
\* coroutine is awaited inside it (line 84) unless entering raised.
inner(cache, strategy, args, kwargs, use_cooldown, t) ==
    IF ~use_cooldown
    THEN [cache |-> cache, last_bucket |-> None, resolved |-> FALSE,
          exc |-> "", retry_after |-> 0, at |-> "bypass"]
    ELSE LET bucket == get_bucket(strategy, args, kwargs)
             r == aenter(cache, bucket, t)
         IN  [cache |-> r.cache, last_bucket |-> bucket, resolved |-> TRUE,
              exc |-> r.exc, retry_after |-> r.retry_after,
              at |-> IF r.exc = "" THEN "func" ELSE "idle"]

\* ---------------------------------------------------------------- history
\* event: the operation that led to the state, the bucket it was about, the
\* value it returned (retry_after with CallableOnCooldown), the exception it
\* raised, the check's answer, the arguments get_bucket was asked about and,
\* for an acquisition, what the bucket's tracker was before it: "none",
\* "valid" (inside its window) or "expired", and how much it had consumed.
Ev(op, key, val, exc) ==
    [op |-> op, key |-> key, val |-> val, exc |-> exc, check |-> TRUE,
     input |-> NoCall, had |-> "none", before |-> 0]

Plain(op) == Ev(op, None, 0, "")

Had(key) ==
    IF ~Has(_cache, key) THEN "none"
    ELSE IF now < Lookup(_cache, key).window_deadline THEN "valid"
    ELSE "expired"

Before(key) ==
    IF Has(_cache, key) THEN consumed(Lookup(_cache, key)) ELSE 0

Acquisition(op, key, val, exc, check) ==
    [Ev(op, key, val, exc) EXCEPT !.check = check, !.had = Had(key),
                                  !.before = Before(key)]

\* A key's window opens with an acquisition made when the key has no tracker
\* or its tracker's deadline has passed, and ends when the tracker is
\* evicted.  admits counts the admissions since the window opened.
Charged(key, admitted) ==
    LET open == ~Has(_cache, key)
                \/ now >= Lookup(_cache, key).window_deadline
        base == IF open THEN 0 ELSE admits[key]
        more == IF admitted /\ base <= MaxLimit THEN base + 1 ELSE base
    IN  [admits EXCEPT ![key] = more]

Forget(counts, cache) ==
    [k \in DOMAIN counts |-> IF Has(cache, k) THEN counts[k] ELSE 0]

\* No stack of coordinators, and no time-of-day tracker: the values of stack
\* and wallclock where one coordinator is looked at on its own.
NoStack ==
    [cds |-> <<>>, pos |-> 0, call |-> NoCall, admitted |-> {},
     last |-> [op |-> "none", by |-> 0, exc |-> "", input |-> NoCall,
               counted |-> 0]]

NoWallclock ==
    [target |-> 0, limit |-> 0, current |-> 0, window_deadline |-> 0,
     clock |-> 0, reset_at |-> -1, exc |-> ""]

\* The coordinator that never evicts, as constructed: an empty cache, and
\* the outcome of its last operation (none yet).
NoReference == [_cache |-> <<>>, exc |-> "", val |-> 0]

\* ------------------------------------------------------------------- Init
\* Cooldown.__init__: a coordinator constructed with one of the given
\* strategies; the sweep task is created with it.
Constructed(strategies) ==
    /\ now = 1
    /\ limit \in 1..MaxLimit
    /\ _bucket \in strategies
    /\ _cache = <<>>
    /\ _last_bucket = None
    /\ _clean_task = "running"
    /\ pc = [p \in Calls |-> "idle"]
    /\ call = [p \in Calls |-> NoCall]
    /\ admits = [k \in Buckets |-> 0]
    /\ event = Plain("init")
    /\ stack = NoStack
    /\ wallclock = NoWallclock
    /\ reference = NoReference

Init == Constructed({"all", "args"})

\* ---------------------------------------------------------------- actions
\* The clock advances.
Tick ==
    /\ now < MaxTime
    /\ now' = now + 1
    /\ event' = Plain("tick")
    /\ UNCHANGED <<limit, _bucket, _cache, _last_bucket, _clean_task, pc,
                   call, admits>>
    /\ UNCHANGED aside

\* A caller calls the decorated coroutine: inner starts and awaits the check.
Invoke(p, i) ==
    /\ pc[p] = "idle"
    /\ pc' = [pc EXCEPT ![p] = "check"]
    /\ call' = [call EXCEPT ![p] = i]
    /\ event' = Plain("invoke")
    /\ UNCHANGED <<now, limit, _bucket, _cache, _last_bucket, _clean_task,
                   admits>>
    /\ UNCHANGED aside

\* The caller's next acquisition would have to wait for a held tracker.
Waits(p) ==
    /\ pc[p] = "check"
    /\ get_bucket(_bucket, call[p].args, call[p].kwargs)
         \in held(pc, call, _bucket)

\* The check answers and inner goes on to the wrapped coroutine, or raises
\* CallableOnCooldown to the caller.  A call suspended after __call__
\* (pc = "resolved") enters with whatever _last_bucket holds by then.
Inner(p, use_cooldown) ==
    /\ pc[p] \in {"check", "resolved"}
    /\ pc[p] = "resolved" => use_cooldown
    /\ ~(use_cooldown /\ Waits(p))
    /\ IF pc[p] = "check" /\ use_cooldown /\ suspends_before_enter
       THEN /\ _last_bucket' = get_bucket(_bucket, call[p].args,
                                          call[p].kwargs)
            /\ pc' = [pc EXCEPT ![p] = "resolved"]
            /\ event' = Plain("resolve")
            /\ UNCHANGED <<_cache, admits, call>>
       ELSE LET r == IF pc[p] = "resolved"
                     THEN LET e == aenter(_cache, _last_bucket, now)
                          IN  [cache |-> e.cache,
                               last_bucket |-> _last_bucket,
                               resolved |-> TRUE, exc |-> e.exc,
                               retry_after |-> e.retry_after,
                               at |-> IF e.exc = "" THEN "func" ELSE "idle"]
                     ELSE inner(_cache, _bucket, call[p].args,
                                call[p].kwargs, use_cooldown, now)
            IN  /\ _cache' = r.cache
                /\ _last_bucket' = IF r.resolved THEN r.last_bucket
                                   ELSE _last_bucket
                /\ admits' = IF r.resolved
                             THEN Charged(r.last_bucket, r.exc = "")
                             ELSE admits
                /\ pc' = [pc EXCEPT ![p] = r.at]
                /\ call' = [call EXCEPT
                              ![p] = IF r.at = "idle" THEN NoCall ELSE @]
                /\ event' = IF r.resolved
                            THEN Acquisition("enter", r.last_bucket,
                                             r.retry_after, r.exc,
                                             use_cooldown)
                            ELSE [Plain("bypass")
                                    EXCEPT !.check = use_cooldown]
    /\ UNCHANGED <<now, limit, _bucket, _clean_task>>
    /\ UNCHANGED aside

\* The wrapped coroutine returns: the "async with" block is left through
\* __aexit__ (not on the bypass path, which has no block) and inner returns
\* the result.  event.check tells whether a block was left.
Return(p) ==
    /\ pc[p] \in {"func", "bypass"}
    /\ _cache' = IF pc[p] = "func" THEN aexit(_cache, _last_bucket)
                 ELSE _cache
    /\ pc' = [pc EXCEPT ![p] = "idle"]
    /\ call' = [call EXCEPT ![p] = NoCall]
    /\ event' = [Plain("return") EXCEPT !.check = (pc[p] = "func")]
    /\ UNCHANGED <<now, limit, _bucket, _last_bucket, _clean_task, admits>>
    /\ UNCHANGED aside

\* The wrapped coroutine raises: the block is left through __aexit__, which
\* returns None, so the exception goes on to the caller of inner.
Raise(p) ==
    /\ pc[p] \in {"func", "bypass"}
    /\ _cache' = IF pc[p] = "func" THEN aexit(_cache, _last_bucket)
                 ELSE _cache
    /\ pc' = [pc EXCEPT ![p] = "idle"]
    /\ call' = [call EXCEPT ![p] = NoCall]
    /\ event' = [Ev("raise", None, 0, "FuncError")
                   EXCEPT !.check = (pc[p] = "func")]
    /\ UNCHANGED <<now, limit, _bucket, _last_bucket, _clean_task, admits>>
    /\ UNCHANGED aside

\* "async with cooldown:" on the coordinator itself: __aenter__ with
\* whatever _last_bucket holds.
DirectEnter ==
    /\ LET r == aenter(_cache, _last_bucket, now)
       IN  /\ _cache' = r.cache
           /\ admits' = Charged(_last_bucket, r.exc = "")
           /\ event' = Acquisition("aenter", _last_bucket, r.retry_after,
                                    r.exc, TRUE)
    /\ UNCHANGED <<now, limit, _bucket, _last_bucket, _clean_task, pc, call>>
    /\ UNCHANGED aside

\* cooldown.get_bucket(*args, **kwargs); the arguments are kept in event.
GetBucket(i) ==
    /\ event' = IF processRaises(_bucket, i.args, i.kwargs)
                THEN [Ev("get_bucket", None, 0, "IndexError")
                        EXCEPT !.input = i]
                ELSE [Ev("get_bucket", get_bucket(_bucket, i.args, i.kwargs),
                         0, "") EXCEPT !.input = i]
    /\ UNCHANGED <<now, limit, _bucket, _cache, _last_bucket, _clean_task,
                   pc, call, admits>>
    /\ UNCHANGED aside

\* cooldown.remaining_calls(*args, **kwargs)
RemainingCalls(i) ==
    /\ ~processRaises(_bucket, i.args, i.kwargs)
    /\ LET r == remaining_calls(_cache, _bucket, i.args, i.kwargs)
       IN  /\ _cache' = r.cache
           /\ admits' = Forget(admits, r.cache)
           /\ event' = Ev("remaining_calls",
                          get_bucket(_bucket, i.args, i.kwargs), r.val, "")
    /\ UNCHANGED <<now, limit, _bucket, _last_bucket, _clean_task, pc, call>>
    /\ UNCHANGED aside

\* cooldown.clear(bucket, force_evict=...), and cooldown.clear() when bucket
\* is None.
Clear(bucket, force_evict) ==
    /\ LET r == clear(_cache, bucket, force_evict, now, 1)
       IN  /\ _cache' = r.cache
           /\ admits' = Forget(admits, r.cache)
           /\ event' = Ev(IF force_evict THEN "clear_force" ELSE "clear",
                          bucket, 0, r.exc)
    /\ UNCHANGED <<now, limit, _bucket, _last_bucket, _clean_task, pc, call>>
    /\ UNCHANGED aside

\* One cycle of _keep_buckets_clear: self.clear(), then sleep.  An exception
\* out of clear() ends the task.
Sweep ==
    /\ _clean_task = "running"
    /\ LET r == clear(_cache, None, FALSE, now, 1)
       IN  /\ _cache' = r.cache
           /\ admits' = Forget(admits, r.cache)
           /\ _clean_task' = IF r.exc = "" THEN "running" ELSE "failed"
           /\ event' = Ev("sweep", None, 0, r.exc)
    /\ UNCHANGED <<now, limit, _bucket, _last_bucket, pc, call>>
    /\ UNCHANGED aside

\* The buckets clear() is called with: the keys of this strategy, or None.
ClearTargets ==
    { get_bucket(_bucket, i.args, i.kwargs) : i \in CallInputs } \cup {None}

\* One caller of the decorated coroutine, direct entries, remaining_calls,
\* the clock and the sweep, under the all and the args strategy.
TrackerNext ==
    \/ Tick
    \/ DirectEnter
    \/ Sweep
    \/ \E i \in CallInputs : Invoke("c1", i)
    \/ \E u \in BOOLEAN : Inner("c1", u)
    \/ Return("c1")
    \/ Raise("c1")
    \/ \E i \in RemainingInputs : RemainingCalls(i)

TrackerSpec == Init /\ [][TrackerNext]_vars

\* The same with clear(key) and clear() called at any time, forced or not.
Next ==
    \/ TrackerNext
    \/ \E b \in ClearTargets, f \in BOOLEAN : Clear(b, f)

Spec == Init /\ [][Next]_vars

\* The same under the scheduling of the event loop: the sweep task is woken
\* again and again, and time passes.
FairSpec == Spec /\ WF_vars(Sweep) /\ WF_vars(Tick)

\* Every strategy.
AnyStrategyInit == Constructed(Strategies)

\* The bucket resolution: get_bucket asked about every input, under every
\* strategy, while one caller's calls fill the cache.
BucketNext ==
    \/ Tick
    \/ \E i \in CallInputs : Invoke("c1", i)
    \/ \E u \in BOOLEAN : Inner("c1", u)
    \/ Return("c1")
    \/ \E i \in QueryInputs : GetBucket(i)

BucketSpec == AnyStrategyInit /\ [][BucketNext]_vars

\* Two callers of the decorated coroutine with calls in flight at once, the
\* clock and the sweep, under every strategy.
ConcurrentNext ==
    \/ Tick
    \/ Sweep
    \/ \E p \in Calls, i \in CallInputs : Invoke(p, i)
    \/ \E p \in Calls, u \in BOOLEAN : Inner(p, u)
    \/ \E p \in Calls : Return(p)

ConcurrentSpec == AnyStrategyInit /\ [][ConcurrentNext]_vars

\* What Cooldown.__init__ raises for a limit and a window: it stores both as
\* given (lines 126-127) and tests neither.
init_raises(lim, time_period) == ""

\* Construction with any limit the constructor is given, the non-positive
\* ones included.
ConfigInit ==
    /\ now = 1
    /\ limit \in -1..MaxLimit
    /\ _bucket \in {"all", "args"}
    /\ _cache = <<>>
    /\ _last_bucket = None
    /\ _clean_task = "running"
    /\ pc = [p \in Calls |-> "idle"]
    /\ call = [p \in Calls |-> NoCall]
    /\ admits = [k \in Buckets |-> 0]
    /\ event = Ev("init", None, 0, init_raises(limit, TimePeriod))
    /\ stack = NoStack
    /\ wallclock = NoWallclock
    /\ reference = NoReference

\* A coordinator whose construction raised does nothing.
ConfigNext ==
    /\ ~(event.op = "init" /\ event.exc # "")
    /\ TrackerNext

ConfigSpec == ConfigInit /\ [][ConfigNext]_vars

\* ------------------------------------------------- stacked coordinators
\* The limits of the two decorators of test_stacked_cooldowns.
OuterLimit == 1
InnerLimit == 2

\* The calls made through the stack: those of test_stacked_cooldowns and
\* f(2, two=2).
StackInputs ==
    { [args |-> <<2>>, kwargs |-> {<<"one", 1>>}],
      [args |-> <<2>>, kwargs |-> {}],
      [args |-> <<1>>, kwargs |-> {<<"two", 2>>}],
      [args |-> <<>>, kwargs |-> {<<"two", 2>>}],
      [args |-> <<2>>, kwargs |-> {<<"two", 2>>}] }

StackBuckets ==
    { get_bucket(s, i.args, i.kwargs) : s \in {"args", "kwargs"},
                                       i \in StackInputs }

\* cooldown(limit, time_period, bucket) (line 66): the coordinator a
\* decorator constructs, with the admissions counted per key and window.
Cooldown(lim, strategy) ==
    [limit |-> lim, _bucket |-> strategy, _cache |-> <<>>,
     _last_bucket |-> None, admits |-> [k \in StackBuckets |-> 0]]

\* The decorators on test_func, from the top one down: the top one is
\* applied last and is the outermost.
Decorators ==
    << Cooldown(OuterLimit, "args"), Cooldown(InnerLimit, "kwargs") >>

\* The wrappers run from the innermost decorator outwards.
evaluation_order_innermost_first(n) == [k \in 1..n |-> n + 1 - k]

\* The order in which the wrappers of n stacked decorators run for a call.
\* Each decorator returns an inner that awaits the callable it was given
\* inside its own "async with" (lines 83-84), and decorators are applied
\* from the bottom up: the caller calls the top decorator's inner, whose
\* func is the inner of the decorator below it.
evaluation_order(n) == [k \in 1..n |-> k]

\* A variant of the entry that lets the call through when the tracker
\* raises.
Cooldown_enter_lets_through(self, args, kwargs, t) ==
    LET bucket == get_bucket(self._bucket, args, kwargs)
        cd == IF Has(self._cache, bucket) THEN Lookup(self._cache, bucket)
              ELSE CooldownTimesPer(self.limit, TimePeriod)
        acq == acquire(cd, t)
    IN  [self |-> [self EXCEPT !._cache = Store(@, bucket, acq.cd),
                               !._last_bucket = bucket],
         key |-> bucket, exc |-> ""]

\* "async with _cooldown(*args, **kwargs)" on the coordinator self:
\* __call__ resolves the bucket into _last_bucket, __aenter__ fetches or
\* creates its tracker and acquires it.
Cooldown_enter(self, args, kwargs, t) ==
    LET bucket == get_bucket(self._bucket, args, kwargs)
        cd == IF Has(self._cache, bucket) THEN Lookup(self._cache, bucket)
              ELSE CooldownTimesPer(self.limit, TimePeriod)
        acq == acquire(cd, t)
    IN  [self |-> [self EXCEPT !._cache = Store(@, bucket, acq.cd),
                               !._last_bucket = bucket],
         key |-> bucket, exc |-> acq.exc]

\* Leaving the "async with" block of the coordinator self.
Cooldown_exit(self) ==
    [self EXCEPT !._cache = aexit(@, self._last_bucket)]

\* Admissions of coordinator self on key in the key's current window.
Counted(self, key, t) ==
    IF Has(self._cache, key) /\ t < Lookup(self._cache, key).window_deadline
    THEN self.admits[key] ELSE 0

\* The coordinator whose wrapper the call is in, and the position of the
\* wrapped coroutine itself.
At(k) == evaluation_order(Len(stack.cds))[k]

Body == Len(stack.cds) + 1

\* The decorated coroutine of test_stacked_cooldowns, with no call made yet.
StackInit ==
    /\ now = 1
    /\ limit = OuterLimit
    /\ _bucket = "all"
    /\ _cache = <<>>
    /\ _last_bucket = None
    /\ _clean_task = "running"
    /\ pc = [p \in Calls |-> "idle"]
    /\ call = [p \in Calls |-> NoCall]
    /\ admits = [k \in Buckets |-> 0]
    /\ event = Plain("init")
    /\ stack = [NoStack EXCEPT !.cds = Decorators]
    /\ wallclock = NoWallclock
    /\ reference = NoReference

StackUnchanged ==
    UNCHANGED <<limit, _bucket, _cache, _last_bucket, _clean_task, pc, call,
                admits, event, wallclock, reference>>

\* The clock advances.
StackTick ==
    /\ now < MaxTime
    /\ now' = now + 1
    /\ stack' = [stack EXCEPT !.last = [NoStack.last EXCEPT !.op = "tick"]]
    /\ StackUnchanged

\* The caller calls the decorated coroutine: the first wrapper starts and
\* awaits its check.
StackInvoke(i) ==
    /\ stack.pos = 0
    /\ stack' = [stack EXCEPT !.pos = 1, !.call = i, !.admitted = {},
                              !.last = [NoStack.last EXCEPT !.op = "invoke",
                                                            !.input = i]]
    /\ UNCHANGED now
    /\ StackUnchanged

\* The wrapper the call is in enters its coordinator.  Admitted, it awaits
\* its func: the next wrapper, or the wrapped coroutine.  Rejected, the
\* exception leaves the blocks of the wrappers around it and reaches the
\* caller.
StackEnter ==
    /\ stack.pos \in 1..Len(stack.cds)
    /\ LET j == At(stack.pos)
           self == stack.cds[j]
           r == Cooldown_enter(self, stack.call.args, stack.call.kwargs, now)
           counted == Counted(self, r.key, now)
           after == [r.self EXCEPT
                       !.admits[r.key] = IF r.exc = "" THEN counted + 1
                                         ELSE counted]
           entered == [stack.cds EXCEPT ![j] = after]
           left == [i \in DOMAIN entered |->
                      IF i \in stack.admitted THEN Cooldown_exit(entered[i])
                      ELSE entered[i]]
       IN  stack' = IF r.exc = ""
                    THEN [stack EXCEPT
                            !.cds = entered,
                            !.pos = @ + 1,
                            !.admitted = @ \cup {j},
                            !.last = [op |-> "admit", by |-> j, exc |-> "",
                                      input |-> stack.call,
                                      counted |-> counted]]
                    ELSE [stack EXCEPT
                            !.cds = left,
                            !.pos = 0,
                            !.call = NoCall,
                            !.last = [op |-> "reject", by |-> j,
                                      exc |-> r.exc, input |-> stack.call,
                                      counted |-> counted]]
    /\ UNCHANGED now
    /\ StackUnchanged

\* The wrapped coroutine returns: every wrapper's block is left and the
\* result goes back to the caller.
StackReturn ==
    /\ stack.pos = Body
    /\ stack' = [stack EXCEPT
                   !.cds = [i \in DOMAIN @ |-> Cooldown_exit(@[i])],
                   !.pos = 0,
                   !.call = NoCall,
                   !.last = [NoStack.last EXCEPT !.op = "return",
                                                 !.input = stack.call]]
    /\ UNCHANGED now
    /\ StackUnchanged

StackNext ==
    \/ StackTick
    \/ \E i \in StackInputs : StackInvoke(i)
    \/ StackEnter
    \/ StackReturn

StackSpec == StackInit /\ [][StackNext]_vars

\* ------------------------------------------------- the time-of-day tracker
\* DynamicCooldownTimesPer (design document, section 4.3): the tracker of
\* section 4.2 with a window that ends at a configured time-of-day instead
\* of a duration after its start.  It is constructed with every call
\* available and a deadline that has passed, as CooldownTimesPer is.
DynamicCooldownTimesPer(lim, target) ==
    [target |-> target, limit |-> lim, current |-> lim,
     window_deadline |-> 0]

\* Today's occurrence of the time-of-day, whether or not it has passed.
next_occurrence_today(target, t) == (t \div Day) * Day + target

\* The next occurrence of the time-of-day strictly after t: today's if it
\* has not yet passed, else the following day's.
next_occurrence(target, t) ==
    LET today == (t \div Day) * Day + target
    IN  IF today > t THEN today ELSE today + Day

\* The window rolls over when its deadline has passed: every call becomes
\* available and the deadline moves to the next occurrence.
dynamic_rolled(cd, t) ==
    IF t >= cd.window_deadline
    THEN [cd EXCEPT !.current = cd.limit,
                    !.window_deadline = next_occurrence(cd.target, t)]
    ELSE cd

\* acquire: roll the window over if due, then take one call or raise.
dynamic_acquire(cd, t) ==
    LET w == dynamic_rolled(cd, t)
    IN  IF consumed(w) < w.limit
        THEN [cd |-> [w EXCEPT !.current = @ - 1], exc |-> ""]
        ELSE [cd |-> w, exc |-> "DynamicCallableOnCooldown"]

\* The tracker part of the wallclock variable.
Tracker(w) ==
    [target |-> w.target, limit |-> w.limit, current |-> w.current,
     window_deadline |-> w.window_deadline]

\* A tracker is constructed for some time-of-day and limit, at some time of
\* the first day; wallclock.reset_at is the time of the last rollover (-1:
\* none yet) and wallclock.exc the outcome of the last acquisition.
WallInit ==
    /\ now = 1
    /\ limit = 1
    /\ _bucket = "all"
    /\ _cache = <<>>
    /\ _last_bucket = None
    /\ _clean_task = "running"
    /\ pc = [p \in Calls |-> "idle"]
    /\ call = [p \in Calls |-> NoCall]
    /\ admits = [k \in Buckets |-> 0]
    /\ event = Plain("init")
    /\ stack = NoStack
    /\ reference = NoReference
    /\ \E target \in 0 .. Day - 1, lim \in 1 .. MaxLimit, t \in 0 .. Day - 1 :
         LET cd == DynamicCooldownTimesPer(lim, target)
         IN  wallclock = [target |-> cd.target, limit |-> cd.limit,
                          current |-> cd.current,
                          window_deadline |-> cd.window_deadline,
                          clock |-> t, reset_at |-> -1, exc |-> ""]

WallUnchanged ==
    UNCHANGED <<now, limit, _bucket, _cache, _last_bucket, _clean_task, pc,
                call, admits, event, stack, reference>>

\* Wall-clock time passes.
WallTick ==
    /\ wallclock.clock < MaxClock
    /\ wallclock' = [wallclock EXCEPT !.clock = @ + 1, !.exc = ""]
    /\ WallUnchanged

\* An acquisition attempt at the current time.
WallAcquire ==
    LET cd == Tracker(wallclock)
        r  == dynamic_acquire(cd, wallclock.clock)
    IN  /\ wallclock' =
              [wallclock EXCEPT
                 !.current = r.cd.current,
                 !.window_deadline = r.cd.window_deadline,
                 !.reset_at = IF wallclock.clock >= cd.window_deadline
                              THEN wallclock.clock ELSE @,
                 !.exc = r.exc]
        /\ WallUnchanged

WallNext ==
    \/ WallTick
    \/ WallAcquire

WallSpec == WallInit /\ [][WallNext]_vars

\* --------------------------------------- with and without eviction, abreast
\* The coordinator and a second one constructed alike (reference) are given
\* the same decorated calls and the same remaining_calls questions at the
\* same times; the sweep and non-forced clear run on the coordinator only.
\* reference.exc and reference.val are the outcome of the second one's last
\* operation.

\* A decorated call, from inner's entry to its return, made on both: the
\* check (if any) lets it through, the bucket is resolved and acquired, the
\* coroutine runs and the block is left (__aexit__ changes nothing).
BothCall(i) ==
    /\ ~processRaises(_bucket, i.args, i.kwargs)
    /\ LET r == inner(_cache, _bucket, i.args, i.kwargs, TRUE, now)
           q == inner(reference._cache, _bucket, i.args, i.kwargs, TRUE, now)
       IN  /\ _cache' = aexit(r.cache, r.last_bucket)
           /\ _last_bucket' = r.last_bucket
           /\ admits' = Charged(r.last_bucket, r.exc = "")
           /\ event' = [Acquisition("enter", r.last_bucket, r.retry_after,
                                    r.exc, TRUE) EXCEPT !.input = i]
           /\ reference' = [_cache |-> aexit(q.cache, q.last_bucket),
                            exc |-> q.exc, val |-> q.retry_after]
    /\ UNCHANGED <<now, limit, _bucket, _clean_task, pc, call, stack,
                   wallclock>>

\* remaining_calls asked of both.
BothRemainingCalls(i) ==
    /\ ~processRaises(_bucket, i.args, i.kwargs)
    /\ LET r == remaining_calls(_cache, _bucket, i.args, i.kwargs)
           q == remaining_calls(reference._cache, _bucket, i.args, i.kwargs)
       IN  /\ _cache' = r.cache
           /\ admits' = Forget(admits, r.cache)
           /\ event' = [Ev("remaining_calls",
                           get_bucket(_bucket, i.args, i.kwargs), r.val, "")
                          EXCEPT !.input = i]
           /\ reference' = [_cache |-> q.cache, exc |-> "", val |-> q.val]
    /\ UNCHANGED <<now, limit, _bucket, _last_bucket, _clean_task, pc, call,
                   stack, wallclock>>

\* Calls, questions and the clock, with the sweep and non-forced clear (of a
\* key, or of every key) run at any point.
TransparentNext ==
    \/ Tick
    \/ Sweep
    \/ \E b \in ClearTargets : Clear(b, FALSE)
    \/ \E i \in CallInputs : BothCall(i)
    \/ \E i \in RemainingInputs : BothRemainingCalls(i)

TransparentSpec == Init /\ [][TransparentNext]_vars

\* ------------------------------------------------------------- properties
\* The step was an acquisition: a decorated call entering the coordinator,
\* or a direct entry.
IsAcquisition(e) == e.op \in {"enter", "aenter"}

\* The tracker of key k has active consumption: it has consumed something
\* and its window is still valid.
ActiveIn(cache, k, t) ==
    /\ Has(cache, k)
    /\ consumed(Lookup(cache, k)) > 0
    /\ t < Lookup(cache, k).window_deadline

\* C1: for every bucket, under every interleaving of the callers, an
\* acquisition is admitted exactly when fewer than limit admissions have
\* been charged to the bucket in its current window, and is rejected with
\* CallableOnCooldown otherwise; no state counts more than limit admissions
\* against a bucket in one window, and the count is what the bucket's
\* tracker has consumed.
C1_ExactlyTheFirstN ==
    /\ [](\A k \in Buckets :
            /\ admits[k] <= limit
            /\ admits[k] = IF Has(_cache, k)
                           THEN consumed(Lookup(_cache, k)) ELSE 0)
    /\ [][IsAcquisition(event') =>
            LET k == event'.key
                counted == IF Had(k) = "valid" THEN admits[k] ELSE 0
            IN  /\ (event'.exc = "") <=> (counted < limit)
                /\ (event'.exc # "") => (event'.exc = "CallableOnCooldown")
         ]_vars

\* A call is rejected on a bucket that limit calls were admitted on in this
\* window, one of them still running the wrapped coroutine.
C1_Witness ==
    /\ event.op = "enter"
    /\ event.exc = "CallableOnCooldown"
    /\ limit = MaxLimit
    /\ admits[event.key] = limit
    /\ \E p \in Calls :
         /\ pc[p] = "func"
         /\ get_bucket(_bucket, call[p].args, call[p].kwargs) = event.key

\* C2: an acquisition on a bucket whose tracker is exhausted and whose
\* window deadline has been reached is admitted, and leaves the tracker with
\* one call consumed in a window that starts now.
C2_ExhaustedBucketResets ==
    (IsAcquisition(event) /\ event.had = "expired" /\ event.before = limit)
    => /\ event.exc = ""
       /\ Has(_cache, event.key)
       /\ consumed(Lookup(_cache, event.key)) = 1
       /\ Lookup(_cache, event.key).window_deadline = now + TimePeriod

\* A decorated call is admitted on a bucket that had used up a limit of more
\* than one call in a window that has passed.
C2_Witness ==
    /\ event.op = "enter"
    /\ event.had = "expired"
    /\ event.before = limit
    /\ limit = MaxLimit
    /\ event.exc = ""

\* C3: in every step, the tracker of every bucket (every key of the cache
\* before or after the step) is left as it was, unless
\* the step is an admitted acquisition on that bucket: then consumed grows by
\* exactly one inside the window, or the window rolls over (consumed reset to
\* 0 once, then the one call taken: consumed = 1 in a window that starts
\* now).  A rejected acquisition changes no tracker, a tracker that appears
\* has consumed one call, and consumed stays within 0..limit.
C3_ConsumedStepwise ==
    [][\A k \in Keys(_cache) \cup Keys(_cache') :
         LET admitted == /\ IsAcquisition(event')
                         /\ event'.key = k
                         /\ event'.exc = ""
         IN  /\ (Has(_cache, k) /\ Has(_cache', k)) =>
                  LET a == Lookup(_cache, k)
                      b == Lookup(_cache', k)
                  IN  IF admitted
                      THEN IF now < a.window_deadline
                           THEN /\ consumed(b) = consumed(a) + 1
                                /\ b.window_deadline = a.window_deadline
                           ELSE /\ consumed(b) = 1
                                /\ b.window_deadline = now + TimePeriod
                      ELSE b = a
             /\ (~Has(_cache, k) /\ Has(_cache', k)) =>
                  /\ admitted
                  /\ consumed(Lookup(_cache', k)) = 1
                  /\ Lookup(_cache', k).window_deadline = now + TimePeriod
             /\ Has(_cache', k) =>
                  consumed(Lookup(_cache', k)) \in 0..limit
      ]_vars

\* A second call is admitted inside a bucket's window: consumed goes from 1
\* to 2.
C3_Witness ==
    /\ IsAcquisition(event)
    /\ event.exc = ""
    /\ event.had = "valid"
    /\ event.before = 1
    /\ consumed(Lookup(_cache, event.key)) = 2

Significant(strategy, i) ==
    CASE strategy = "all" -> <<i.args, i.kwargs>>
      [] strategy = "args" -> <<i.args>>
      [] strategy = "kwargs" -> <<i.kwargs>>
      [] strategy = "first_arg" -> <<first_arg(i.args, i.kwargs)>>

\* C5: get_bucket changes neither the cache nor the last resolved bucket,
\* and any two calls of it under the coordinator's strategy return equal
\* keys if and only if their arguments agree on the fields that are
\* significant under that strategy.
C5_GetBucket ==
    [][event'.op = "get_bucket" =>
         /\ _cache' = _cache
         /\ _last_bucket' = _last_bucket
         /\ (event.op = "get_bucket" /\ event.exc = "" /\ event'.exc = "") =>
              ((event.key = event'.key)
               <=> (Significant(_bucket, event.input)
                    = Significant(_bucket, event'.input)))
      ]_vars

\* Under the args strategy a call with a keyword argument gets the bucket of
\* f(1), while the cache holds trackers.
C5_Witness ==
    /\ event.op = "get_bucket"
    /\ _bucket = "args"
    /\ event.input.kwargs # {}
    /\ event.key = _HashableArguments(<<1>>, {})
    /\ _cache # <<>>

\* C6: an acquisition on a bucket, admitted or rejected, leaves the tracker
\* of every other bucket as it was, and is admitted or rejected according to
\* its own bucket's tracker alone.
C6_BucketsIndependent ==
    [][IsAcquisition(event') =>
         LET a == event'.key
         IN  /\ \A b \in Buckets \ {a} :
                  /\ Has(_cache', b) <=> Has(_cache, b)
                  /\ Has(_cache, b) =>
                       Lookup(_cache', b) = Lookup(_cache, b)
             /\ (event'.exc = "")
                <=> \/ Had(a) # "valid"
                    \/ consumed(Lookup(_cache, a)) < limit
      ]_vars

\* A call is admitted on one bucket while another bucket is exhausted inside
\* its window and a call is still running the wrapped coroutine.
C6_Witness ==
    /\ event.op = "enter"
    /\ event.exc = ""
    /\ \E b \in Buckets \ {event.key} :
         /\ ActiveIn(_cache, b, now)
         /\ consumed(Lookup(_cache, b)) = limit
         /\ \E p \in Calls :
              /\ pc[p] = "func"
              /\ get_bucket(_bucket, call[p].args, call[p].kwargs) = b

\* The clear was aimed at key k: clear(k), or clear() and the sweep, which
\* are aimed at every key.
Targets(e, k) == e.key = None \/ e.key = k

\* C7: a non-forced clear (clear(key), clear() or a sweep cycle) leaves every
\* tracker with active consumption in the cache as it was, and removes every
\* tracker without active consumption that it is aimed at.
C7_NonForcedClear ==
    [][event'.op \in {"clear", "sweep"} =>
         \A k \in Keys(_cache) :
           IF ActiveIn(_cache, k, now)
           THEN /\ Has(_cache', k)
                /\ Lookup(_cache', k) = Lookup(_cache, k)
           ELSE Targets(event', k) => ~Has(_cache', k)
      ]_vars

\* The half of C7 that is about active trackers.
C7_ActiveTrackersKept ==
    [][event'.op \in {"clear", "sweep"} =>
         \A k \in Keys(_cache) :
           ActiveIn(_cache, k, now) =>
             /\ Has(_cache', k)
             /\ Lookup(_cache', k) = Lookup(_cache, k)
      ]_vars

\* C8: clear() with no key returns without an error from every cache state;
\* it removes every idle entry and keeps every entry with active consumption
\* (with force_evict it removes every entry).
C8_ClearAllReturns ==
    [][(event'.op \in {"clear", "clear_force"} /\ event'.key = None) =>
         /\ event'.exc = ""
         /\ \A k \in Keys(_cache) :
              IF event'.op = "clear" /\ ActiveIn(_cache, k, now)
              THEN Has(_cache', k)
              ELSE ~Has(_cache', k)
      ]_vars

\* The tracker of key k is in the cache with no active consumption.
IdleIn(cache, k, t) == Has(cache, k) /\ ~ActiveIn(cache, k, t)

\* C9: the sweep task is never stopped by an error raised in a sweep cycle,
\* and every tracker that is idle is eventually evicted (or acquired again).
C9_SweepEvictsIdle ==
    /\ [](_clean_task = "running")
    /\ \A k \in Buckets : IdleIn(_cache, k, now) ~> ~IdleIn(_cache, k, now)

\* C10: when the check answers false the call goes on to the wrapped
\* coroutine and the cache, every tracker and the last resolved bucket are
\* left as they were; a decorated call that changes any of them had a check
\* that answered true.
C10_CheckFalseBypasses ==
    [][\A p \in Calls :
         (pc[p] = "check" /\ pc'[p] # "check") =>
           /\ ~event'.check =>
                /\ pc'[p] = "bypass"
                /\ _cache' = _cache
                /\ _last_bucket' = _last_bucket
           /\ (_cache' # _cache \/ _last_bucket' # _last_bucket) =>
                event'.check
      ]_vars

\* A call whose check answered false goes on to the wrapped coroutine while
\* its bucket is exhausted inside its window.
C10_Witness ==
    /\ event.op = "bypass"
    /\ ~event.check
    /\ \E p \in Calls :
         /\ pc[p] = "bypass"
         /\ LET k == get_bucket(_bucket, call[p].args, call[p].kwargs)
            IN  /\ ActiveIn(_cache, k, now)
                /\ consumed(Lookup(_cache, k)) = limit

\* C14: clear(key, force_evict=True) with a key of get_bucket raises nothing,
\* removes the tracker of that key whatever it has consumed and leaves every
\* other entry as it was; a remaining_calls on that bucket right after it
\* returns limit, and an acquisition on that bucket right after it finds no
\* tracker, is admitted and leaves consumed = 1 in a window that starts now.
C14_ForcedClearOfKey ==
    /\ [][(event'.op = "clear_force" /\ event'.key # None) =>
            /\ event'.exc = ""
            /\ Keys(_cache') = Keys(_cache) \ {event'.key}
            /\ \A k \in Keys(_cache') : Lookup(_cache', k) = Lookup(_cache, k)
            /\ KeyList(_cache') = KeyList(Delete(_cache, event'.key))
         ]_vars
    /\ [][(event.op = "clear_force" /\ event.key # None
            /\ event'.key = event.key) =>
            /\ event'.op = "remaining_calls" => event'.val = limit
            /\ IsAcquisition(event') =>
                 /\ event'.had = "none"
                 /\ event'.exc = ""
                 /\ consumed(Lookup(_cache', event.key)) = 1
                 /\ Lookup(_cache', event.key).window_deadline
                      = now + TimePeriod
         ]_vars

\* A forced clear of the bucket of a call that is still running the wrapped
\* coroutine, its window not over: the tracker is gone, another is kept.
C14_Witness ==
    /\ event.op = "clear_force"
    /\ event.key # None
    /\ ~Has(_cache, event.key)
    /\ _cache # <<>>
    /\ now = 1
    /\ pc["c1"] = "func"
    /\ get_bucket(_bucket, call["c1"].args, call["c1"].kwargs) = event.key

\* C17: no caller ever has to wait for a tracker; a call that enters the
\* coordinator is, in that same step and with no time passing, either
\* admitted (and goes on to the wrapped coroutine) or rejected with
\* CallableOnCooldown (and is over: it is not kept for a later attempt).
C17_AcquisitionNeverWaits ==
    /\ [](\A p \in Calls : ~Waits(p))
    /\ [][\A p \in Calls :
            (pc[p] = "check" /\ pc'[p] # "check" /\ event'.op = "enter") =>
              /\ now' = now
              /\ event'.exc \in {"", "CallableOnCooldown"}
              /\ event'.exc = "" => pc'[p] = "func"
              /\ event'.exc # "" => (pc'[p] = "idle" /\ call'[p] = NoCall)
         ]_vars

\* A call is admitted on a bucket while another call on the same bucket is
\* still running the wrapped coroutine.
C17_Witness ==
    /\ event.op = "enter"
    /\ event.exc = ""
    /\ event.before = 1
    /\ \A p \in Calls :
         /\ pc[p] = "func"
         /\ get_bucket(_bucket, call[p].args, call[p].kwargs) = event.key

\* C18: the step in which the wrapped coroutine returns or raises (the
\* "async with" block is left) changes neither the cache, nor any tracker,
\* nor the last resolved bucket; what the coroutine raised is what the
\* caller gets.
C18_ExitChangesNothing ==
    [][event'.op \in {"return", "raise"} =>
         /\ _cache' = _cache
         /\ _last_bucket' = _last_bucket
         /\ event'.exc = IF event'.op = "raise" THEN "FuncError" ELSE ""
      ]_vars

\* The wrapped coroutine of an admitted call raised, and the bucket of the
\* call is still exhausted inside its window.
C18_Witness ==
    /\ event.op = "raise"
    /\ event.check
    /\ limit = MaxLimit
    /\ ActiveIn(_cache, _last_bucket, now)
    /\ consumed(Lookup(_cache, _last_bucket)) = limit

\* C19: a decorated call that enters the coordinator is charged to the bucket
\* of its own arguments: that key becomes the last resolved bucket, its
\* tracker takes the call, and the tracker of no other key changes.
C19_ChargedToOwnBucket ==
    [][\A p \in Calls :
         (/\ pc[p] \in {"check", "resolved"}
          /\ pc'[p] \notin {"check", "resolved"}
          /\ event'.op = "enter") =>
           LET own == get_bucket(_bucket, call[p].args, call[p].kwargs)
           IN  /\ event'.key = own
               /\ _last_bucket' = own
               /\ Has(_cache', own)
               /\ event'.exc = "" =>
                    consumed(Lookup(_cache', own))
                      = (IF Had(own) = "valid" THEN Before(own) ELSE 0) + 1
               /\ \A k \in (Keys(_cache) \cup Keys(_cache')) \ {own} :
                    /\ Has(_cache, k) /\ Has(_cache', k)
                    /\ Lookup(_cache', k) = Lookup(_cache, k)
      ]_vars

\* A call enters on its own bucket while the other caller, whose arguments
\* resolve to another bucket, is suspended in its check.
C19_Witness ==
    /\ event.op = "enter"
    /\ event.exc = ""
    /\ \E p \in Calls, q \in Calls :
         /\ pc[p] = "func"
         /\ get_bucket(_bucket, call[p].args, call[p].kwargs) = event.key
         /\ pc[q] = "check"
         /\ get_bucket(_bucket, call[q].args, call[q].kwargs) # event.key

\* C20: every acquisition leaves the bucket it was charged to as the last
\* resolved bucket; a direct entry is charged to the last resolved bucket
\* (None when none was resolved): it leaves _last_bucket as it was, changes
\* the tracker of that key alone, and is admitted exactly when that tracker
\* has admitted fewer than limit entries in its window.
C20_DirectEntryToLastBucket ==
    [][/\ IsAcquisition(event') =>
            (_last_bucket' = event'.key /\ Has(_cache', event'.key))
       /\ event'.op = "aenter" =>
            LET k == _last_bucket
                counted == IF Had(k) = "valid" THEN Before(k) ELSE 0
            IN  /\ _last_bucket' = k
                /\ (event'.exc = "") <=> (counted < limit)
                /\ event'.exc # "" => event'.exc = "CallableOnCooldown"
                /\ consumed(Lookup(_cache', k))
                     = IF event'.exc = "" THEN counted + 1 ELSE counted
                /\ \A j \in (Keys(_cache) \cup Keys(_cache')) \ {k} :
                     /\ Has(_cache, j) /\ Has(_cache', j)
                     /\ Lookup(_cache', j) = Lookup(_cache, j)
      ]_vars

\* A direct entry is rejected on the bucket a decorated call resolved, after
\* limit entries were admitted on it in this window.
C20_Witness ==
    /\ event.op = "aenter"
    /\ event.exc = "CallableOnCooldown"
    /\ event.key # None
    /\ event.key = _last_bucket
    /\ limit = MaxLimit
    /\ admits[event.key] = limit

\* C15: a coordinator with a non-positive limit does not exist past its
\* construction, which raised a configuration error: it never admits or
\* rejects a call.
C15_NonPositiveLimitRefused ==
    limit <= 0 =>
      /\ event.op = "init"
      /\ event.exc = "ConfigurationError"

\* The key of coordinator j for the arguments i.
KeyOf(j, i) == get_bucket(stack.cds[j]._bucket, i.args, i.kwargs)

\* C11: through a stack of coordinators the wrapped coroutine runs for a call
\* exactly when every coordinator of the stack has admitted that call; each
\* coordinator admits the call exactly when it has admitted fewer than its
\* own limit on the call's key under its own strategy in that key's window,
\* and a rejection ends the call with CallableOnCooldown, the coroutine not
\* run.
C11_BodyIffAllAdmitted ==
    /\ [](stack.pos = Body <=>
            (stack.pos # 0 /\ stack.admitted = DOMAIN stack.cds))
    /\ [][stack'.last.op \in {"admit", "reject"} =>
            LET j == stack'.last.by
                self == stack.cds[j]
                counted == Counted(self, KeyOf(j, stack.call), now)
            IN  /\ (stack'.last.op = "admit") <=> (counted < self.limit)
                /\ stack'.last.op = "reject" =>
                     /\ stack'.last.exc = "CallableOnCooldown"
                     /\ stack.pos # Body
                     /\ stack'.pos = 0
         ]_vars

\* The calls of test_stacked_cooldowns, made in one window: f(2, one=1) ran,
\* f(2) was rejected, f(1, two=2) and f(two=2) ran, and f(two=2) is
\* rejected.
C11_Witness ==
    /\ stack.last.op = "reject"
    /\ stack.last.input = [args |-> <<>>, kwargs |-> {<<"two", 2>>}]
    /\ now = 1
    /\ KeyList(stack.cds[1]._cache)
         = << _HashableArguments(<<2>>, {}), _HashableArguments(<<1>>, {}),
              _HashableArguments(<<>>, {}) >>
    /\ KeyList(stack.cds[2]._cache)
         = << _HashableArguments(<<>>, {<<"one", 1>>}),
              _HashableArguments(<<>>, {<<"two", 2>>}) >>
    /\ consumed(Lookup(stack.cds[2]._cache,
                       _HashableArguments(<<>>, {<<"two", 2>>}))) = 2

C13_NoRollback ==
    /\ [](\A j \in DOMAIN stack.cds, k \in StackBuckets :
            stack.cds[j].admits[k]
              = IF Has(stack.cds[j]._cache, k)
                THEN consumed(Lookup(stack.cds[j]._cache, k)) ELSE 0)
    /\ [][stack'.last.op \in {"reject", "return"} =>
            \A i \in DOMAIN stack.cds :
              /\ stack'.cds[i]._cache = stack.cds[i]._cache
              /\ (stack'.last.op = "reject" /\ i \in stack.admitted) =>
                   consumed(Lookup(stack'.cds[i]._cache,
                                   KeyOf(i, stack.call))) >= 1
         ]_vars

\* The inner coordinator rejects a call whose key is exhausted, and the
\* outer coordinator keeps the one call it admitted on the call's key.
C13_Witness ==
    /\ stack.last.op = "reject"
    /\ stack.last.by = 2
    /\ LET k == KeyOf(1, stack.last.input)
       IN  /\ ActiveIn(stack.cds[1]._cache, k, now)
           /\ consumed(Lookup(stack.cds[1]._cache, k)) = OuterLimit
           /\ stack.cds[1].admits[k] = OuterLimit

\* C16: on the time-of-day tracker, after a window reset the deadline is the
\* earliest occurrence of the configured time-of-day strictly later than
\* the time of the reset: today's occurrence if it had not passed at the
\* reset, else the following day's; so the deadline is greater than the
\* reset time and at most one day after it.
C16_DeadlineIsNextOccurrence ==
    wallclock.reset_at >= 0 =>
        LET at       == wallclock.reset_at
            deadline == wallclock.window_deadline
            midnight == (at \div Day) * Day
        IN  /\ deadline > at
            /\ deadline <= at + Day
            /\ deadline % Day = wallclock.target
            /\ (at - midnight < wallclock.target
                   => deadline = midnight + wallclock.target)
            /\ (at - midnight >= wallclock.target
                   => deadline = midnight + Day + wallclock.target)

\* A second reset, made after the day's occurrence had passed: the deadline
\* is on the following day.
C16_Witness ==
    /\ wallclock.reset_at >= Day
    /\ wallclock.reset_at % Day > wallclock.target
    /\ wallclock.window_deadline
         = (wallclock.reset_at \div Day + 1) * Day + wallclock.target
    /\ wallclock.exc = ""
    /\ wallclock.current = wallclock.limit - 1

\* The two caches differ only in idle keys: every tracker of the coordinator
\* is in the one that never evicts, unchanged, and a tracker only the latter
\* has is idle.
OnlyIdleKeysDiffer ==
    /\ \A k \in Keys(_cache) :
         /\ Has(reference._cache, k)
         /\ Lookup(reference._cache, k) = Lookup(_cache, k)
    /\ \A k \in Keys(reference._cache) :
         ~Has(_cache, k) => IdleIn(reference._cache, k, now)

\* C21: non-forced eviction is observationally transparent: with the sweep
\* and non-forced clear() run at arbitrary points, every call is admitted or
\* rejected, and every remaining_calls question answered, as by a
\* coordinator that never evicts, and the two caches differ only in which
\* idle keys they hold.
C21_EvictionTransparent ==
    /\ event.op = "enter" => event.exc = reference.exc
    /\ event.op = "remaining_calls" => event.val = reference.val
    /\ OnlyIdleKeysDiffer

\* The part of C21 about admissions and the caches: every call has the same
\* outcome (with the same retry_after when rejected) on both coordinators.
C21_SameAdmissions ==
    /\ event.op = "enter" =>
         /\ event.exc = reference.exc
         /\ event.val = reference.val
    /\ OnlyIdleKeysDiffer

\* A call admitted on a key whose idle tracker had been evicted, the
\* coordinator that never evicts still holding it.
C21_SameAdmissionsWitness ==
    /\ event.op = "enter"
    /\ event.exc = ""
    /\ event.had = "none"
    /\ now > 1
    /\ \E k \in Keys(reference._cache) : ~Has(_cache, k)

====
